---- MODULE Spec2Model ----
(***************************************************************************)
(* Instagram business-discovery client: the discovery request              *)
(* (get_account_info), the cursor pagination loop (get_all_posts), the     *)
(* summary reporter (print_summary) and the three click commands of        *)
(* src/src/cli.py, together with the earlier draft src/ig-scraper.py.      *)
(*                                                                         *)
(* The server is the environment.  Its content is fixed for one run: a     *)
(* first (discovery) response and the pages behind the cursor URLs.  The   *)
(* pages reachable from a response by following cursors always form a      *)
(* chain that ends, or that closes into a cycle; URLs are opaque to the     *)
(* client, so they are numbered 1..K along that chain and the last page's  *)
(* cursor is absent (0) or points back into the chain.  Every request may  *)
(* succeed, fail with an HTTP error status, or fail in transport.          *)
(***************************************************************************)
EXTENDS Integers, Sequences, FiniteSets, TLC

MaxPages == 2        \* cursor URLs the server knows
MaxPageLen == 2      \* items per page in the enumerated servers
MaxN == 3            \* largest --max-posts enumerated

DefaultMediaLimit == 100

Min(a, b) == IF a < b THEN a ELSE b
Max(a, b) == IF a > b THEN a ELSE b

\* accumulated growth allowed to an uncapped run against a cyclic server
MaxGrowth == MaxN + MaxPageLen

VARIABLES
    entry,        \* which program runs: a cli.py command or ig-scraper.py main()
    cfg,          \* which configuration values are present in the environment
    media_limit,  \* --media-limit
    max_posts,    \* --max-posts: [given, n]; given = FALSE is None
    world,        \* server content: first response and cursor pages
    pc,           \* position of the single thread
    ret,          \* which caller get_account_info returns to
    gaiCalls,     \* network calls made by the current get_account_info invocation
    data,         \* value returned by get_account_info
    media,        \* discovery["media"] inside get_all_posts
    all_posts,    \* the accumulator of get_all_posts
    inflight,     \* cursor URL of the pagination request in flight (0: none)
    result,       \* value returned by get_all_posts
    posts,        \* the list print_summary reports on
    reported,     \* print_summary printed "Fetched len(posts) posts"
    saved,        \* save_to_json wrote a file
    outcome,      \* "running", "ok", or the exception that ended the program
    fetched,      \* history: items of every page received by get_all_posts, in order
    lastNext,     \* history: cursor carried by the page most recently received
    pageFailed    \* history: a pagination request of this get_all_posts failed

vars == <<entry, cfg, media_limit, max_posts, world, pc, ret, gaiCalls, data,
          media, all_posts, inflight, result, posts, reported, saved, outcome,
          fetched, lastNext, pageFailed>>

---------------------------------------------------------------------------
(* Values *)

None == [kind |-> "None", hasData |-> FALSE, data |-> <<>>, next |-> 0]
NoCap == [given |-> FALSE, n |-> 0]
Cap(n) == [given |-> TRUE, n |-> n]

\* items are identified by the URL that served them and their position
Items(k, len) == [i \in 1..len |-> <<k, i>>]

PageShapes(ml) ==
    {[hasData |-> h, len |-> l] : h \in BOOLEAN, l \in 0..Min(ml, MaxPageLen)}
        \ {[hasData |-> FALSE, len |-> l] : l \in 1..MaxPageLen}

MkPage(k, shape, nxt) ==
    [hasData |-> shape.hasData, data |-> Items(k, shape.len), next |-> nxt]

MkFirst(kind, shape, nxt) ==
    [kind |-> kind, hasData |-> shape.hasData, data |-> Items(0, shape.len),
     next |-> nxt]

NoShape == [hasData |-> FALSE, len |-> 0]

\* first responses that carry no media edge at all
BareWorlds ==
    {[first |-> MkFirst(k, NoShape, 0), pages |-> <<>>] :
        k \in {"empty", "no_bd", "no_media"}}

MediaWorlds(ml) ==
    UNION {
        {[first |-> MkFirst("media", f, IF K >= 1 THEN 1 ELSE 0),
          pages |-> [k \in 1..K |->
                        MkPage(k, sh[k], IF k < K THEN k + 1 ELSE t)]] :
            f \in PageShapes(ml), sh \in [1..K -> PageShapes(ml)], t \in 0..K}
        : K \in 0..MaxPages}

Worlds(ml) == BareWorlds \cup MediaWorlds(ml)

\* the end-to-end example: 100 items and a cursor, then a final page of 30
ExampleWorld ==
    [first |-> [kind |-> "media", hasData |-> TRUE, data |-> Items(0, 100),
                next |-> 1],
     pages |-> <<[hasData |-> TRUE, data |-> Items(1, 30), next |-> 0]>>]

FullCfg == [token |-> TRUE, acct |-> TRUE, user |-> TRUE]
Configs == [token : BOOLEAN, acct : BOOLEAN, user : BOOLEAN]

Outcomes == {"ok", "http_error", "transport_error"}

---------------------------------------------------------------------------
(* Pure helpers of the client *)

\* list[:n] of Python, negative n counted from the end
PySlice(s, n) ==
    IF n >= 0 THEN SubSeq(s, 1, Min(n, Len(s)))
    ELSE SubSeq(s, 1, Max(0, Len(s) + n))

\* if max_posts is not None: all_posts = all_posts[:max_posts]
Trim_untrimmed(ps, cap) == ps
Trim(ps, cap) == IF cap.given THEN PySlice(ps, cap.n) ELSE ps

\* max_posts is not None and len(all_posts) >= max_posts
CapReached_offbyone(ps, cap) == cap.given /\ Len(ps) > cap.n
CapReached_never(ps, cap) == FALSE
CapReached(ps, cap) == cap.given /\ Len(ps) >= cap.n

\* "paging" in m and "next" in m["paging"]
HasNext(m) == m.next # 0

\* not data or "business_discovery" not in data
NoDiscovery(d) == d.kind \in {"None", "empty", "no_bd"}

\* "media" in discovery and "data" in discovery["media"]
HasMediaData(d) == d.kind = "media" /\ d.hasData

\* the first page's items as get_all_posts and print_summary take them
FirstPagePosts_none(d) == <<>>
FirstPagePosts(d) == IF HasMediaData(d) THEN d.data ELSE <<>>

\* if "data" in page_data: all_posts.extend(page_data["data"])
Extend_replace(ps, page) == IF page.hasData THEN page.data ELSE ps
Extend(ps, page) == IF page.hasData THEN ps \o page.data ELSE ps

\* discovery["media"] = page_data
UpdateMedia_stale(m, page) == m
UpdateMedia(m, page) == page

\* what ends a command before the client exists: the username check of the
\* command, then the check of InstagramBusinessDiscovery.__init__
ConfigError_unchecked(c) ==
    IF ~c.user THEN "UsageError" ELSE "none"
ConfigError(c) ==
    IF ~c.user THEN "UsageError"
    ELSE IF ~c.token \/ ~c.acct THEN "ValueError"
    ELSE "none"

IsCli == entry \in {"summary", "fetch", "all_posts"}

---------------------------------------------------------------------------
Init ==
    /\ \/ /\ entry \in {"summary", "all_posts"}
          /\ cfg \in Configs
          /\ media_limit \in 1..MaxPageLen
          /\ max_posts \in {NoCap} \cup {Cap(n) : n \in (-2)..MaxN}
          /\ world \in Worlds(media_limit)
       \/ /\ entry = "fetch"
          /\ cfg \in Configs
          /\ media_limit \in 1..MaxPageLen
          /\ max_posts = NoCap
          /\ world \in Worlds(media_limit)
       \/ /\ entry = "all_posts"
          /\ cfg = FullCfg
          /\ media_limit = DefaultMediaLimit
          /\ max_posts \in {NoCap, Cap(50)}
          /\ world = ExampleWorld
       \/ /\ entry = "scraper_main"
          /\ cfg = FullCfg
          /\ media_limit = DefaultMediaLimit
          /\ max_posts = NoCap
          /\ world \in Worlds(media_limit)
    /\ pc = "start"
    /\ ret = "none"
    /\ gaiCalls = 0
    /\ data = None
    /\ media = [hasData |-> FALSE, data |-> <<>>, next |-> 0]
    /\ all_posts = <<>>
    /\ inflight = 0
    /\ result = <<>>
    /\ posts = <<>>
    /\ reported = FALSE
    /\ saved = FALSE
    /\ outcome = "running"
    /\ fetched = <<>>
    /\ lastNext = 0
    /\ pageFailed = FALSE

inputs == <<entry, cfg, media_limit, max_posts, world>>
gapVars == <<media, all_posts, inflight, result, fetched, lastNext, pageFailed>>
outVars == <<posts, reported, saved>>

NoMedia == [hasData |-> FALSE, data |-> <<>>, next |-> 0]
MediaOf(d) == [hasData |-> d.hasData, data |-> d.data, next |-> d.next]

\* `if data:` of the callers: None and an empty object are falsy
Truthy(d) == d.kind \notin {"None", "empty"}

\* the except clause of the older draft reads response.text although no
\* response was bound; the newer draft catches the UnboundLocalError
TransportFailureRaises == entry = "scraper_main"

\* enter get_account_info, to return to caller r
CallGai(r) ==
    /\ pc' = "gai_call"
    /\ ret' = r
    /\ gaiCalls' = 0
    /\ data' = None

\* enter get_all_posts: all_posts = [] and the call of get_account_info
CallGap ==
    /\ CallGai("gap")
    /\ all_posts' = <<>>
    /\ media' = NoMedia
    /\ inflight' = 0
    /\ result' = <<>>
    /\ fetched' = <<>>
    /\ lastNext' = 0
    /\ pageFailed' = FALSE

Abort(e) ==
    /\ pc' = "exit"
    /\ outcome' = e
    /\ UNCHANGED <<ret, gaiCalls, data>>

Finish ==
    /\ pc' = "exit"
    /\ outcome' = "ok"
    /\ UNCHANGED <<ret, gaiCalls, data>>

---------------------------------------------------------------------------
(* cli.py commands, up to their first network call *)

Summary ==
    /\ pc = "start" /\ entry = "summary"
    /\ IF ConfigError(cfg) # "none"
       THEN Abort(ConfigError(cfg)) /\ UNCHANGED gapVars
       ELSE IF max_posts.given /\ max_posts.n > media_limit
            THEN CallGap /\ UNCHANGED outcome
            ELSE CallGai("ps_single") /\ UNCHANGED <<gapVars, outcome>>
    /\ UNCHANGED <<inputs, outVars>>

Fetch ==
    /\ pc = "start" /\ entry = "fetch"
    /\ IF ConfigError(cfg) # "none"
       THEN Abort(ConfigError(cfg))
       ELSE CallGai("fetch") /\ UNCHANGED outcome
    /\ UNCHANGED <<inputs, outVars, gapVars>>

AllPosts ==
    /\ pc = "start" /\ entry = "all_posts"
    /\ IF ConfigError(cfg) # "none"
       THEN Abort(ConfigError(cfg)) /\ UNCHANGED gapVars
       ELSE CallGap /\ UNCHANGED outcome
    /\ UNCHANGED <<inputs, outVars>>

\* main() of ig-scraper.py: credentials are literals, print_summary comes first
ScraperMain ==
    /\ pc = "start" /\ entry = "scraper_main"
    /\ CallGai("main_summary")
    /\ UNCHANGED <<inputs, outVars, gapVars, outcome>>

---------------------------------------------------------------------------
(* get_account_info *)

GaiRequest ==
    /\ pc = "gai_call"
    /\ gaiCalls' = gaiCalls + 1
    /\ pc' = "gai_await"
    /\ UNCHANGED <<inputs, ret, data, gapVars, outVars, outcome>>

GaiResponse ==
    /\ pc = "gai_await"
    /\ \E o \in Outcomes :
        \/ /\ o = "ok"
           /\ data' = world.first
           /\ pc' = "gai_ret"
           /\ UNCHANGED outcome
        \/ /\ o = "http_error"
           /\ data' = None
           /\ pc' = "gai_ret"
           /\ UNCHANGED outcome
        \/ /\ o = "transport_error"
           /\ IF TransportFailureRaises
              THEN /\ pc' = "exit"
                   /\ outcome' = "UnboundLocalError"
                   /\ UNCHANGED data
              ELSE /\ data' = None
                   /\ pc' = "gai_ret"
                   /\ UNCHANGED outcome
    /\ UNCHANGED <<inputs, ret, gaiCalls, gapVars, outVars>>

---------------------------------------------------------------------------
(* get_all_posts *)

\* leaving the loop: the trim and the return
GapReturn(ps) ==
    /\ result' = Trim(ps, max_posts)
    /\ pc' = "gap_done"

GapFirstPage ==
    /\ pc = "gai_ret" /\ ret = "gap"
    /\ IF NoDiscovery(data)
       THEN /\ result' = all_posts
            /\ pc' = "gap_done"
            /\ UNCHANGED <<media, all_posts, fetched, lastNext>>
       ELSE IF HasMediaData(data)
            THEN /\ all_posts' = all_posts \o FirstPagePosts(data)
                 /\ media' = MediaOf(data)
                 /\ fetched' = data.data
                 /\ lastNext' = data.next
                 /\ pc' = "gap_loop"
                 /\ UNCHANGED result
            ELSE /\ GapReturn(all_posts)
                 /\ UNCHANGED <<media, all_posts, fetched, lastNext>>
    /\ UNCHANGED <<inputs, ret, gaiCalls, data, inflight, pageFailed,
                   outVars, outcome>>

\* the while condition, the cap test, and the request for the next page
GapLoop ==
    /\ pc = "gap_loop"
    /\ IF ~HasNext(media) \/ CapReached(all_posts, max_posts)
       THEN /\ GapReturn(all_posts)
            /\ UNCHANGED inflight
       ELSE /\ Len(all_posts) <= Len(world.first.data) + MaxGrowth
            /\ inflight' = media.next
            /\ pc' = "gap_await"
            /\ UNCHANGED result
    /\ UNCHANGED <<inputs, ret, gaiCalls, data, media, all_posts, fetched,
                   lastNext, pageFailed, outVars, outcome>>

GapPageOk ==
    /\ pc = "gap_await"
    /\ LET page == world.pages[inflight]
           ps == Extend(all_posts, page)
       IN /\ all_posts' = ps
          /\ fetched' = fetched \o page.data
          /\ lastNext' = page.next
          /\ IF ~HasNext(page)
             THEN GapReturn(ps) /\ UNCHANGED media
             ELSE /\ media' = UpdateMedia(media, page)
                  /\ pc' = "gap_loop"
                  /\ UNCHANGED result
    /\ inflight' = 0
    /\ UNCHANGED <<inputs, ret, gaiCalls, data, pageFailed, outVars, outcome>>

\* except RequestException: print and break (HTTP status or transport alike)
GapPageFail_raises ==
    /\ pc = "gap_await"
    /\ pageFailed' = TRUE
    /\ inflight' = 0
    /\ pc' = "exit"
    /\ outcome' = "RequestException"
    /\ UNCHANGED <<inputs, ret, gaiCalls, data, media, all_posts, result,
                   fetched, lastNext, outVars>>

GapPageFail ==
    /\ pc = "gap_await"
    /\ pageFailed' = TRUE
    /\ inflight' = 0
    /\ GapReturn(all_posts)
    /\ UNCHANGED <<inputs, ret, gaiCalls, data, media, all_posts, fetched,
                   lastNext, outVars, outcome>>

---------------------------------------------------------------------------
(* callers after get_all_posts returned *)

\* all_posts command: print the count, save if posts
AllPostsSave ==
    /\ pc = "gap_done" /\ entry = "all_posts"
    /\ saved' = (result # <<>>)
    /\ Finish
    /\ UNCHANGED <<inputs, gapVars, posts, reported>>

\* print_summary, paginated branch: posts taken, account info fetched again
SummaryAccountInfo ==
    /\ pc = "gap_done" /\ entry = "summary"
    /\ posts' = result
    /\ CallGai("ps_paged")
    /\ UNCHANGED <<inputs, gapVars, reported, saved, outcome>>

ScraperSaveAll ==
    /\ pc = "gap_done" /\ entry = "scraper_main"
    /\ saved' = (saved \/ result # <<>>)
    /\ Finish
    /\ UNCHANGED <<inputs, gapVars, posts, reported>>

---------------------------------------------------------------------------
(* callers after get_account_info returned *)

PsReport ==
    /\ pc = "gai_ret" /\ ret \in {"ps_paged", "ps_single"}
    /\ IF NoDiscovery(data)
       THEN UNCHANGED <<posts, reported>>
       ELSE /\ posts' = IF ret = "ps_single" THEN FirstPagePosts(data) ELSE posts
            /\ reported' = TRUE
    /\ Finish
    /\ UNCHANGED <<inputs, gapVars, saved>>

FetchSave ==
    /\ pc = "gai_ret" /\ ret = "fetch"
    /\ saved' = Truthy(data)
    /\ Finish
    /\ UNCHANGED <<inputs, gapVars, posts, reported>>

\* print_summary of the older draft, then main() asks for the full data
ScraperPsReport ==
    /\ pc = "gai_ret" /\ ret = "main_summary"
    /\ IF HasMediaData(data) /\ ~NoDiscovery(data)
       THEN posts' = data.data /\ reported' = TRUE
       ELSE UNCHANGED <<posts, reported>>
    /\ CallGai("main_fetch")
    /\ UNCHANGED <<inputs, gapVars, saved, outcome>>

\* main(): save the full data if any, then get_all_posts
ScraperFetchSave ==
    /\ pc = "gai_ret" /\ ret = "main_fetch"
    /\ saved' = Truthy(data)
    /\ CallGap
    /\ UNCHANGED <<inputs, posts, reported, outcome>>

---------------------------------------------------------------------------
Next ==
    \/ Summary
    \/ Fetch
    \/ AllPosts
    \/ ScraperMain
    \/ GaiRequest
    \/ GaiResponse
    \/ GapFirstPage
    \/ GapLoop
    \/ GapPageOk
    \/ GapPageFail
    \/ AllPostsSave
    \/ SummaryAccountInfo
    \/ ScraperSaveAll
    \/ PsReport
    \/ FetchSave
    \/ ScraperPsReport
    \/ ScraperFetchSave

Spec == Init /\ [][Next]_vars

\* the thread is synchronous and every request returns or fails
FairSpec == Spec /\ WF_vars(Next)

TypeOK ==
    /\ pc \in {"start", "gai_call", "gai_await", "gai_ret", "gap_loop",
               "gap_await", "gap_done", "exit"}
    /\ gaiCalls \in 0..1
    /\ inflight \in 0..MaxPages

---------------------------------------------------------------------------
(* Vocabulary of the properties *)

IsPrefix(a, b) == Len(a) <= Len(b) /\ a = SubSeq(b, 1, Len(a))
TakeFirst(s, n) == SubSeq(s, 1, Min(n, Len(s)))

RECURSIVE ConcatPages(_, _)
ConcatPages(pages, k) ==
    IF k > Len(pages) THEN <<>>
    ELSE pages[k].data \o ConcatPages(pages, k + 1)

\* every item of the pages reachable from the first response, in server order
ChainItems == world.first.data \o ConcatPages(world.pages, 1)

\* the cursor of the last page points back into the chain
Cyclic == Len(world.pages) >= 1 /\ world.pages[Len(world.pages)].next # 0

\* the cursors cycle through pages none of which carries an item
EmptyCycle ==
    /\ Cyclic
    /\ \A k \in world.pages[Len(world.pages)].next .. Len(world.pages) :
          world.pages[k].data = <<>>

Returned == pc = "gap_done"
FirstReceived == data = world.first
ConfigMissing == ~cfg.token \/ ~cfg.acct \/ ~cfg.user
NoNetworkYet == gaiCalls = 0 /\ pc \notin {"gai_await", "gap_await", "gai_ret"}

---------------------------------------------------------------------------
\* C1 (as stated): for every integer N given as max_posts, the list
\* get_all_posts returns has at most N items.
C1_AtMostN_EveryInteger ==
    (Returned /\ max_posts.given) => Len(result) <= max_posts.n

\* C1 (amended): for every N >= 0 given as max_posts, whatever the server
\* pages and whichever requests fail, the returned list has at most N items.
C1_AtMostN ==
    (Returned /\ max_posts.given /\ max_posts.n >= 0)
        => Len(result) <= max_posts.n

\* the last page fetched overshot the cap and the result was cut to it
C1_Witness ==
    /\ Returned /\ max_posts.given /\ max_posts.n >= 1
    /\ Len(all_posts) > max_posts.n
    /\ Len(fetched) > Len(world.first.data)
    /\ Len(result) = max_posts.n

\* C2 (as stated): with max_posts = N and at least N items on the pages
\* reachable from the first response, get_all_posts returns exactly the
\* first N items in server order.
C2_ExactlyN_Unconditional ==
    (Returned /\ FirstReceived /\ max_posts.given /\ max_posts.n >= 0
        /\ Len(ChainItems) >= max_posts.n)
        => result = SubSeq(ChainItems, 1, max_posts.n)

\* C2 (amended): the same, provided the first response carries a media data
\* list and no pagination request fails.
C2_ExactlyN ==
    (Returned /\ FirstReceived /\ max_posts.given /\ max_posts.n >= 0
        /\ Len(ChainItems) >= max_posts.n
        /\ HasMediaData(world.first) /\ ~pageFailed)
        => result = SubSeq(ChainItems, 1, max_posts.n)

\* exactly N items came back, cut from a page that overshot the cap
C2_Witness ==
    /\ Returned /\ FirstReceived /\ max_posts.given /\ ~pageFailed
    /\ max_posts.n = MaxN
    /\ lastNext # 0
    /\ Len(fetched) > max_posts.n
    /\ result = SubSeq(ChainItems, 1, max_posts.n)

\* C3: once the accumulated items have reached or exceeded max_posts no
\* pagination request is issued, cursor or not; in the example (100 items and
\* a cursor, then a final page of 30) max_posts = 50 returns the first 50
\* items without asking for the second page and no cap returns 130 items.
C3_NoRequestPastCap ==
    /\ pc = "gap_await"
          => ~(max_posts.given /\ Len(all_posts) >= max_posts.n)
    /\ (world = ExampleWorld /\ max_posts.given)
          => /\ pc # "gap_await"
             /\ (Returned /\ FirstReceived)
                   => /\ result = SubSeq(world.first.data, 1, 50)
                      /\ fetched = world.first.data
    /\ (world = ExampleWorld /\ ~max_posts.given /\ Returned /\ FirstReceived
            /\ ~pageFailed)
          => Len(result) = 130 /\ result = ChainItems

C3_Witness ==
    /\ world = ExampleWorld /\ max_posts.given /\ Returned
    /\ Len(all_posts) = 100 /\ Len(result) = 50 /\ media.next = 1

\* C4: a first response without a next cursor is followed by no pagination
\* request, and (max_posts unset or not below the first page's length) the
\* result is exactly the first page's items.
C4_SinglePage ==
    /\ pc = "gap_await" => world.first.next # 0
    /\ (Returned /\ FirstReceived /\ world.first.next = 0
           /\ (~max_posts.given \/ max_posts.n >= Len(world.first.data)))
          => result = world.first.data

C4_Witness ==
    /\ Returned /\ FirstReceived /\ world.first.next = 0
    /\ max_posts.given /\ max_posts.n = Len(world.first.data)
    /\ Len(result) = MaxPageLen

\* C5: when a pagination request fails, get_all_posts raises nothing, issues
\* no request after the failed one, and returns the items of the pages
\* fetched before it (cut to max_posts when a cap is given).
C5_PartialResult ==
    pageFailed =>
        /\ outcome \in {"running", "ok"}
        /\ pc # "gap_await"
        /\ result = IF max_posts.given
                    THEN TakeFirst(fetched, max_posts.n) ELSE fetched

\* the second pagination request failed after the first had delivered items
C5_Witness ==
    /\ Returned /\ pageFailed /\ lastNext = 2
    /\ Len(result) > Len(world.first.data)

\* C6: get_account_info makes exactly one network call and returns the parsed
\* response or None for every outcome of that call, never raising, in both
\* drafts of the client.
C6_OneCallNeverRaises ==
    /\ outcome # "UnboundLocalError"
    /\ pc = "gai_ret" => (gaiCalls = 1 /\ data \in {None, world.first})

\* C7 (as stated): a CLI command with a configuration value missing aborts
\* with a usage error before any request or file write; with the
\* configuration complete no failure ends the command in an error.
C7_UsageErrorOnMissingConfig ==
    IsCli =>
        /\ ConfigMissing =>
              /\ NoNetworkYet /\ ~saved
              /\ pc \in {"start", "exit"}
              /\ pc = "exit" => outcome = "UsageError"
        /\ (~ConfigMissing /\ pc = "exit") => outcome = "ok"

\* C7 (amended): a missing target username aborts with a usage error, a
\* missing token or account identifier (username present) aborts with the
\* ValueError of the constructor, both before any request or file write;
\* with the configuration complete no failure ends the command in an error.
C7_AbortOnMissingConfig ==
    IsCli =>
        /\ ConfigMissing =>
              /\ NoNetworkYet /\ ~saved
              /\ pc \in {"start", "exit"}
              /\ (pc = "exit" /\ ~cfg.user) => outcome = "UsageError"
              /\ (pc = "exit" /\ cfg.user) => outcome = "ValueError"
        /\ (~ConfigMissing /\ pc = "exit") => outcome = "ok"

C7_Witness ==
    /\ IsCli /\ pc = "exit" /\ cfg.user /\ ~cfg.token
    /\ outcome = "ValueError" /\ ~saved /\ gaiCalls = 0

\* C8: the number of posts print_summary reports as fetched is at most
\* max_posts, on the paginated and on the single-page path (stated here for
\* N >= 0, which is all the violation needs).
C8_SummaryAtMostN ==
    (entry = "summary" /\ reported /\ max_posts.given /\ max_posts.n >= 0)
        => Len(posts) <= max_posts.n

\* C9 (as stated): with max_posts given the pagination loop terminates for
\* every server behaviour, item-less pages with cursors included.
C9_CappedLoopTerminates ==
    (pc = "gap_loop" /\ max_posts.given) ~> Returned

\* C9 (amended): with max_posts given the loop terminates unless the server
\* keeps answering with item-less pages that carry a cursor; with max_posts
\* unset it ends as soon as a page arrives without a cursor or a request fails.
C9_LoopTerminates ==
    /\ (pc = "gap_loop" /\ max_posts.given /\ ~EmptyCycle) ~> Returned
    /\ [][pc = "gap_await" =>
            ((pageFailed' \/ lastNext' = 0) => pc' = "gap_done")]_vars

\* a capped run against a cyclic server came back after going round the cycle
C9_Witness ==
    /\ Returned /\ max_posts.given /\ Cyclic /\ ~EmptyCycle /\ ~pageFailed
    /\ lastNext # 0
    /\ Len(fetched) > Len(ChainItems)

\* C10: each pagination request targets the cursor of the page received last,
\* and the returned list is a prefix of the received pages' items in request
\* order.
C10_CursorAndOrder ==
    /\ pc = "gap_await" => (inflight = lastNext /\ inflight # 0)
    /\ pc \in {"gap_loop", "gap_await"} => all_posts = fetched
    /\ Returned => IsPrefix(result, fetched)

C10_Witness ==
    /\ Returned /\ lastNext = 0 /\ ~pageFailed
    /\ Len(world.pages) = MaxPages
    /\ result = ChainItems /\ Len(result) > MaxPageLen + 1

====
